---- MODULE Spec2Model ----
(***************************************************************************)
(* Model of src/compiler/transforms/es6.ts: the lowering of a class        *)
(* declaration or class expression (constructor synthesis, member          *)
(* transform, static property assignments, decorator lowering).            *)
(*                                                                         *)
(* Syntax nodes are records.  The transform context (statement buffer      *)
(* stack, generated names, hoisted locals) is the state; one action per    *)
(* step of transformClassDeclaration and of transformClassExpression.  A   *)
(* class declared in a constructor body is lowered while the body is       *)
(* visited: the locals of the suspended call wait on a stack of callers.   *)
(***************************************************************************)
EXTENDS Integers, Sequences, FiniteSets, TLC

\* ------------------------------------------------------------------ bounds
MaxParams == 2
MaxBody == 2
MaxMembers == 2
MaxDecorators == 2
MaxNesting == 2

\* ----------------------------------------------------------- syntax nodes
Undefined == [kind |-> "undefined"]

Range(s) == {s[i] : i \in 1..Len(s)}

SeqsUpTo(S, n) == UNION {[1..k -> S] : k \in 0..n}

\* Identifiers: a text and a uniqueness suffix (0 for a source identifier).
Ident(text) == [kind |-> "Identifier", text |-> text, suffix |-> 0]

ClassName == Ident("C")

\* A parameter declaration.  decorators is the number of decorators it carries
\* (parameter.decorators is undefined when there are none).
Param(i, access, decs) ==
    [kind |-> "Parameter", name |-> <<"p", i>>, accessibility |-> access,
     decorators |-> decs, rest |-> FALSE]

\* Statements of a constructor body in the source tree: a call of the base
\* constructor, or any other statement (id is its position among those).
SuperCallStatement ==
    [kind |-> "SuperCall", arguments |-> "original", id |-> 0]

PlainStatement(k) ==
    [kind |-> "Statement", arguments |-> "original", id |-> k]

Body(superFirst, n) ==
    (IF superFirst THEN <<SuperCallStatement>> ELSE <<>>) \o [k \in 1..n |-> PlainStatement(k)]

\* A class element.  Every element carries every field; fields that make no
\* sense for a kind hold a default.
Member(kind, static, decs, nameKind, name, init, hasBody, params, body, pinned) ==
    [kind |-> kind, static |-> static, decorators |-> decs,
     nameKind |-> nameKind, name |-> name, initializer |-> init,
     hasBody |-> hasBody, parameters |-> params, body |-> body,
     pinnedComment |-> pinned, ambient |-> FALSE]

Constructor(params, body) ==
    Member("Constructor", FALSE, 0, "Identifier", 0, FALSE, TRUE, params, body, FALSE)

\* A constructor overload signature (no body); pinned tells whether it has a
\* pinned or triple-slash leading comment.
ConstructorOverload(pinned) ==
    Member("Constructor", FALSE, 0, "Identifier", 0, FALSE, FALSE, <<>>, <<>>, pinned)

Property(static, decs, nameKind, name, init) ==
    Member("PropertyDeclaration", static, decs, nameKind, name, init, FALSE, <<>>, <<>>, FALSE)

Method(static, decs, nameKind, name, paramDecs) ==
    Member("MethodDeclaration", static, decs, nameKind, name, FALSE, TRUE,
           <<Param(1, FALSE, paramDecs)>>, <<>>, FALSE)

\* A method overload signature: no body.
MethodSignature(static, nameKind, name) ==
    Member("MethodDeclaration", static, 0, nameKind, name, FALSE, FALSE,
           <<Param(1, FALSE, 0)>>, <<>>, FALSE)

\* A member flagged as ambient (declaration only).
Ambient(m) == [m EXCEPT !.ambient = TRUE]

GetAccessor(static, decs, nameKind, name) ==
    Member("GetAccessor", static, decs, nameKind, name, FALSE, TRUE, <<>>, <<>>, FALSE)

SetAccessor(static, decs, nameKind, name, paramDecs) ==
    Member("SetAccessor", static, decs, nameKind, name, FALSE, TRUE,
           <<Param(1, FALSE, paramDecs)>>, <<>>, FALSE)

Class(decs, hasBase, members) ==
    [kind |-> "ClassDeclaration", name |-> ClassName, decorators |-> decs,
     hasBaseType |-> hasBase, members |-> members]

ClassExpression(decs, hasBase, members) ==
    [kind |-> "ClassExpression", name |-> ClassName, decorators |-> decs,
     hasBaseType |-> hasBase, members |-> members]


\* ------------------------------------------------------------------ inputs
\* Members other than accessors are named after their position, so that only
\* accessors can share a name.
IsAccessorKind(kind) == kind \in {"GetAccessor", "SetAccessor"}

WithNames(members) ==
    [i \in 1..Len(members) |->
        IF IsAccessorKind(members[i].kind) \/ members[i].kind = "Constructor"
        THEN members[i]
        ELSE [members[i] EXCEPT !.name = i + 1]]

\* Classes exercising constructor synthesis: fields with and without
\* initializer, an optional constructor with parameter properties, an optional
\* initial super call, overload signatures with and without pinned comments.
FieldShapes ==
    {Property(FALSE, 0, "Identifier", 0, TRUE),
     Property(FALSE, 0, "Identifier", 0, FALSE),
     Property(TRUE, 0, "Identifier", 0, TRUE)}

ParameterLists(accessSet, decoratorSet) ==
    {[i \in 1..Len(f) |-> Param(i, f[i][1], f[i][2])] :
        f \in SeqsUpTo(accessSet \X decoratorSet, MaxParams)}

OverloadLists ==
    {<<>>, <<ConstructorOverload(TRUE)>>, <<ConstructorOverload(FALSE)>>}

\* Classes exercising class-level decoration: class decorators, decorated
\* constructor parameters, with and without a static field and a decorated
\* method next to the constructor; one with static fields and decorated
\* instance and static members interleaved.
DecoratedClassTails ==
    {<<>>,
     <<Property(TRUE, 0, "Identifier", 0, TRUE)>>,
     <<Method(FALSE, 1, "Identifier", 0, 0)>>,
     <<Property(TRUE, 0, "Identifier", 0, TRUE), Method(TRUE, 1, "Identifier", 0, 0)>>,
     <<Method(TRUE, 1, "Identifier", 0, 0), Property(TRUE, 0, "Identifier", 0, TRUE),
       Method(FALSE, 1, "Identifier", 0, 0), Property(TRUE, 0, "Identifier", 0, TRUE),
       Property(FALSE, 1, "Identifier", 0, FALSE)>>}

\* Classes exercising member-level decoration: decorated and undecorated
\* members of every kind, accessors sharing one name.  paramDecs is the number
\* of decorators on the parameter of every method and set accessor.
MemberShapes(paramDecs) ==
    UNION {{Property(static, 1, "Identifier", 0, FALSE),
            Method(static, 1, "Identifier", 0, paramDecs),
            GetAccessor(static, 0, "Identifier", 1),
            GetAccessor(static, 1, "Identifier", 1),
            SetAccessor(static, 0, "Identifier", 1, paramDecs),
            SetAccessor(static, 1, "Identifier", 1, paramDecs)} : static \in BOOLEAN}
    \cup {Property(TRUE, 0, "Identifier", 0, TRUE)}

\* Classes exercising member names: one member of any kind whose name is an
\* identifier, a string literal or a computed name.
NameKinds == {"Identifier", "StringLiteral", "ComputedPropertyName"}

NamedMembers ==
    UNION {{Property(static, d, nk, 0, init) : init \in BOOLEAN} \cup
           {Method(static, d, nk, 0, 0),
            GetAccessor(static, d, nk, 1),
            SetAccessor(static, d, nk, 1, 0)} :
           static \in BOOLEAN, d \in {0, 1}, nk \in NameKinds}

\* Members that declare without defining: an overload signature, an ambient
\* method.
DeclarationOnlyMembers ==
    {MethodSignature(FALSE, "Identifier", 0),
     Ambient(MethodSignature(FALSE, "Identifier", 0)),
     Ambient(Method(TRUE, 0, "Identifier", 0, 0))}

\* Classes declared in a constructor body, nested up to depth d.  Each
\* carries TypeScript syntax: a static field with initializer, and either
\* nothing else, or an initialized instance field, or a constructor with a
\* parameter property whose body declares a class of depth d - 1.
NestedNames == <<"D", "E", "F", "G">>

NestedClass(d, decs, members) ==
    [Class(decs, FALSE, members) EXCEPT !.name = Ident(NestedNames[d])]

RECURSIVE NestedClasses(_)
NestedClasses(d) ==
    IF d = 0 THEN {}
    ELSE LET static == Property(TRUE, 0, "Identifier", 0, TRUE)
             lists == {<<static>>,
                       <<Property(FALSE, 0, "Identifier", 0, TRUE), static>>}
                      \cup {<<Constructor(<<Param(1, TRUE, 0)>>, <<PlainStatement(1), inner>>),
                              static>> : inner \in NestedClasses(d - 1)}
         IN {NestedClass(d, decs, WithNames(ms)) : decs \in {0, 1}, ms \in lists}

\* ------------------------------------------------------------------- state
VARIABLES
    cls,                    \* the class being lowered by the active call
    emitDecoratorMetadata,  \* context.compilerOptions.emitDecoratorMetadata
    pc,                     \* position of the active call
    statements,             \* the context's stack of statement buffers
    generated,              \* members whose name node has a generated name
    hoisted,                \* generated locals hoisted so far
    pushCount,              \* number of pushStatements calls so far
    ctor,                   \* the result of transformConstructor
    members,                \* the lowered member list
    newNode,                \* the class node built by the active call
    result,                 \* what the active call returned
    pending,                \* constructor body statements still to visit
    visited,                \* the constructor body statements visited so far
    callers,                \* the suspended calls: locals of the enclosing classes
    outputBase,             \* the buffer the active call emits to, and its
                            \* length when the call began
    ctorEntry,              \* history: the buffers and the length of the trace
                            \* when transformConstructor was entered
    trace,                  \* history: the buffer operations performed so far
    calls                   \* history: the calls of transformConstructor that returned

vars == <<cls, emitDecoratorMetadata, pc, statements, generated, hoisted,
          pushCount, ctor, members, newNode, result, pending, visited, callers,
          outputBase, ctorEntry, trace, calls>>

\* The locals of transformConstructor and the history, left alone by the
\* steps outside it.
constructorVars == <<pending, visited, callers, outputBase, ctorEntry, calls>>

\* The transform context as one value, threaded through the operators below.
Context ==
    [statements |-> statements, generated |-> generated, hoisted |-> hoisted,
     pushCount |-> pushCount, emitDecoratorMetadata |-> emitDecoratorMetadata,
     trace |-> trace]

\* ------------------------------------------------------- statement buffers
\* An operation on the buffer stack, as recorded in the history: depth is the
\* height of the stack the operation works on (for an emit, the buffer that
\* receives the statement).
BufferEvent(op, depth, statement) ==
    [op |-> op, depth |-> depth, statement |-> statement]

PushStatements(ctx) ==
    [ctx EXCEPT !.statements = Append(@, <<>>), !.pushCount = @ + 1,
                !.trace = Append(@, BufferEvent("push", Len(ctx.statements) + 1, Undefined))]

PopStatements(ctx) ==
    [ctx EXCEPT !.statements = SubSeq(@, 1, Len(@) - 1),
                !.trace = Append(@, BufferEvent("pop", Len(ctx.statements), Undefined))]

GetStatements(ctx) == ctx.statements[Len(ctx.statements)]

EmitStatements(ctx, ss) ==
    [ctx EXCEPT !.statements[Len(ctx.statements)] = @ \o ss,
                !.trace = @ \o [k \in 1..Len(ss) |->
                                   BufferEvent("emit", Len(ctx.statements), ss[k])]]

EmitStatement(ctx, s) == EmitStatements(ctx, <<s>>)

\* ------------------------------------------------------------- the driver
\* transformNode on a node that carries no TypeScript syntax returns the node
\* itself (line 19): plain statements and decorator expressions.
TransformNode(node) == node

\* transformNode on a parameter: its modifier and decorator children are
\* elided by transformNodeWorker, the rest is kept.
TransformParameter(p) == [p EXCEPT !.accessibility = FALSE, !.decorators = 0]

VisitParameters(ps) == [i \in 1..Len(ps) |-> TransformParameter(ps[i])]

\* ------------------------------------------------------ declaration names
GetDeclarationName(node) == node.name

\* A fresh identifier for the hint: the first suffixed name not in use.
CreateUniqueIdentifier(text, used) ==
    LET n == CHOOSE k \in 1..(Cardinality(used) + 1) :
                /\ [kind |-> "Identifier", text |-> text, suffix |-> k] \notin used
                /\ \A j \in 1..(k - 1) :
                      [kind |-> "Identifier", text |-> text, suffix |-> j] \in used
    IN [kind |-> "Identifier", text |-> text, suffix |-> n]

GeneratedIdentifier(i) ==
    [kind |-> "Identifier", text |-> <<"_gen", i>>, expression |-> Undefined]

NodeCanBeDecorated(m) ==
    \/ m.kind = "PropertyDeclaration"
    \/ m.kind \in {"MethodDeclaration", "GetAccessor", "SetAccessor"} /\ m.hasBody

NodeIsDecorated(m) ==
    /\ m.decorators > 0
    /\ m.kind \in {"MethodDeclaration", "GetAccessor", "SetAccessor"} => m.hasBody

ParameterIsDecorated(p) == p.decorators > 0

NodeOrChildIsDecorated(m) ==
    \/ NodeIsDecorated(m)
    \/ /\ m.kind \in {"MethodDeclaration", "SetAccessor"}
       /\ \E k \in 1..Len(m.parameters) : ParameterIsDecorated(m.parameters[k])

\* context.declareLocal(): a fresh temporary, declared in the enclosing scope.
DeclareLocal(ctx) ==
    LET temp == [kind |-> "Identifier", text |-> "_tmp", suffix |-> Len(ctx.hoisted) + 1]
    IN [ctx |-> [ctx EXCEPT !.hoisted = Append(@, temp)], local |-> temp]

\* ----------------------------------------------------------- member names
\* The source name node of member i.
NameExpression(i) == [kind |-> "NameExpression", of |-> i]

ComputedPropertyName(i, expression) ==
    [kind |-> "ComputedPropertyName", text |-> <<"computed", i>>, expression |-> expression]

TransformPropertyName(ctx, node, i, isPerInstance) ==
    LET m == node.members[i] IN
    IF m.nameKind = "ComputedPropertyName"
    THEN IF ~isPerInstance /\ i \in ctx.generated
         THEN [ctx |-> ctx, name |-> GeneratedIdentifier(i)]
         ELSE LET expression == TransformNode(NameExpression(i)) IN
              IF ~isPerInstance /\ NodeCanBeDecorated(m) /\ NodeIsDecorated(m)
              THEN [ctx |-> [ctx EXCEPT !.generated = @ \cup {i},
                                        !.hoisted = Append(@, GeneratedIdentifier(i))],
                    name |-> ComputedPropertyName(i,
                                [kind |-> "Assignment", left |-> GeneratedIdentifier(i),
                                 right |-> expression])]
              ELSE [ctx |-> ctx, name |-> ComputedPropertyName(i, expression)]
    ELSE [ctx |-> ctx,
          name |-> [kind |-> m.nameKind, text |-> <<"name", m.name>>, expression |-> Undefined]]

GetExpressionForPropertyName(ctx, node, i) ==
    LET r == TransformPropertyName(ctx, node, i, FALSE) IN
    [ctx |-> r.ctx,
     name |-> IF r.name.kind = "ComputedPropertyName" THEN r.name.expression
              ELSE IF r.name.kind = "StringLiteral"
                   THEN [kind |-> "StringLiteral", text |-> r.name.text, expression |-> Undefined]
                   ELSE Undefined]

\* ----------------------------------------------------- property declarations
\* The indices at which keep holds, ascending.
RECURSIVE SelectIndices(_, _)
SelectIndices(keep, i) ==
    IF i > Len(keep) THEN <<>>
    ELSE (IF keep[i] THEN <<i>> ELSE <<>>) \o SelectIndices(keep, i + 1)

GetInitializedProperties(node, isStatic) ==
    SelectIndices([i \in 1..Len(node.members) |->
                      /\ node.members[i].kind = "PropertyDeclaration"
                      /\ isStatic = node.members[i].static
                      /\ node.members[i].initializer], 1)

GetParametersWithPropertyAssignments(c) ==
    SelectIndices([k \in 1..Len(c.parameters) |-> c.parameters[k].accessibility], 1)

GetFirstConstructorWithBody(node) ==
    LET found == SelectIndices([i \in 1..Len(node.members) |->
                                  /\ node.members[i].kind = "Constructor"
                                  /\ node.members[i].hasBody], 1)
    IN IF found = <<>> THEN 0 ELSE found[1]

TransformPropertyDeclaration(ctx, node, i) ==
    LET property == node.members[i]
        target == IF property.static THEN GetDeclarationName(node)
                  ELSE [kind |-> "ThisKeyword", text |-> "this", suffix |-> 0]
        r == TransformPropertyName(ctx, node, i, ~property.static)
    IN [ctx |-> r.ctx,
        expression |-> [kind |-> "PropertyAssignment", target |-> target,
                        name |-> r.name,
                        value |-> TransformNode([kind |-> "Initializer", of |-> i]),
                        original |-> i]]

RECURSIVE TransformPropertyDeclarations(_, _, _)
TransformPropertyDeclarations(ctx, node, properties) ==
    IF properties = <<>> THEN [ctx |-> ctx, expressions |-> <<>>]
    ELSE LET r == TransformPropertyDeclaration(ctx, node, Head(properties))
             rest == TransformPropertyDeclarations(r.ctx, node, Tail(properties))
         IN [ctx |-> rest.ctx, expressions |-> <<r.expression>> \o rest.expressions]

RECURSIVE EmitPropertyDeclarations(_, _, _)
EmitPropertyDeclarations(ctx, node, properties) ==
    IF properties = <<>> THEN ctx
    ELSE LET r == TransformPropertyDeclaration(ctx, node, Head(properties))
         IN EmitPropertyDeclarations(EmitStatement(r.ctx, r.expression), node, Tail(properties))

\* ------------------------------------------------------------- constructor
FindInitialSuperCall(c) ==
    IF c.hasBody /\ Len(c.body) > 0 /\ c.body[1].kind = "SuperCall"
    THEN c.body[1]
    ELSE Undefined

\* this.<name> = <name> for parameter p of the constructor.
ParameterPropertyAssignment(p) ==
    [kind |-> "ParameterPropertyAssignment", target |-> <<"this", p.name>>, value |-> p.name]

SynthesizedSuperCall ==
    [kind |-> "SuperCall", arguments |-> "...args", id |-> 0]

\* The forwarding parameter declared as a plain parameter.
RestParameter_NotRest ==
    [kind |-> "Parameter", name |-> <<"args", 0>>, accessibility |-> FALSE,
     decorators |-> 0, rest |-> FALSE]

RestParameter ==
    [kind |-> "Parameter", name |-> <<"args", 0>>, accessibility |-> FALSE,
     decorators |-> 0, rest |-> TRUE]

\* Leading comment ranges of member i (the pinned ones), as the members that
\* own them.
GetLeadingCommentRanges(node, i) ==
    IF node.members[i].pinnedComment THEN <<i>> ELSE <<>>

OverloadCommentRanges(node) ==
    SelectIndices([i \in 1..Len(node.members) |->
                      /\ node.members[i].kind = "Constructor"
                      /\ ~node.members[i].hasBody
                      /\ node.members[i].pinnedComment], 1)

ConstructorNode(origin, original, parameters, body, comments) ==
    [kind |-> "Constructor", origin |-> origin, original |-> original,
     static |-> FALSE, decorators |-> 0, name |-> Undefined,
     parameters |-> parameters, body |-> body, comments |-> comments]

\* The statements of the constructor body that follow the hoisted part.
BodyStatements(c, superCall) ==
    IF superCall # Undefined THEN c.body ELSE SubSeq(c.body, 2, Len(c.body))

\* The fast path without the clone: the overload comments are lost.
FastPathConstructor_NoClone(node, c) ==
    IF c = 0 THEN Undefined
    ELSE ConstructorNode("original", c, node.members[c].parameters,
             node.members[c].body, <<>>)

\* Lines 199-207: without assignments to emit the constructor (member c, 0
\* when the class has none) is returned as it is, or as a clone carrying the
\* pinned comments of the overload signatures.  (Overload signatures come
\* with an implementation, so c # 0 whenever there are such comments.)
FastPathConstructor(node, c) ==
    IF c = 0 THEN Undefined
    ELSE IF OverloadCommentRanges(node) # <<>>
         THEN ConstructorNode("clone", c, node.members[c].parameters,
                  node.members[c].body,
                  OverloadCommentRanges(node) \o GetLeadingCommentRanges(node, c))
         ELSE ConstructorNode("original", c, node.members[c].parameters,
                  node.members[c].body, <<>>)

\* The body read from the buffer after the buffer was popped.
SynthesizedBody_PopFirst(ctx) ==
    [ctx |-> PopStatements(ctx), body |-> GetStatements(PopStatements(ctx))]

\* Lines 266-274: the body is the content of the current buffer, read before
\* the buffer is popped.
SynthesizedBody(ctx) ==
    [ctx |-> PopStatements(ctx), body |-> GetStatements(ctx)]

\* Line 199: no parameter property and no initialized instance property.
HasNoPropertyAssignments(node) ==
    LET c == GetFirstConstructorWithBody(node) IN
    /\ IF c = 0 THEN TRUE
       ELSE GetParametersWithPropertyAssignments(node.members[c]) = <<>>
    /\ GetInitializedProperties(node, FALSE) = <<>>

\* The initial super call that line 225 finds (Undefined when there is none,
\* or no constructor, or no base type).
InitialSuperCall(node, hasBaseType) ==
    LET c == GetFirstConstructorWithBody(node) IN
    IF c # 0 /\ hasBaseType THEN FindInitialSuperCall(node.members[c]) ELSE Undefined

\* transformConstructor, lines 209-257: a buffer is pushed and receives the
\* base constructor call, the parameter property assignments and the instance
\* property assignments.
EmitConstructorPrologue(ctx, node, hasBaseType) ==
    LET c == GetFirstConstructorWithBody(node)
        parameterPropertyAssignments ==
            IF c # 0 THEN GetParametersWithPropertyAssignments(node.members[c]) ELSE <<>>
        instancePropertyAssignments == GetInitializedProperties(node, FALSE)
        c1 == PushStatements(ctx)
        superCall == InitialSuperCall(node, hasBaseType)
        c2 == IF c # 0
              THEN IF superCall # Undefined THEN EmitStatement(c1, superCall) ELSE c1
              ELSE IF hasBaseType THEN EmitStatement(c1, SynthesizedSuperCall) ELSE c1
        c3 == IF c # 0
              THEN EmitStatements(c2,
                     [k \in 1..Len(parameterPropertyAssignments) |->
                        ParameterPropertyAssignment(
                            node.members[c].parameters[parameterPropertyAssignments[k]])])
              ELSE c2
    IN EmitPropertyDeclarations(c3, node, instancePropertyAssignments)

\* Lines 259-263: the statements handed to visitNodes.
StatementsToVisit(node, hasBaseType) ==
    LET c == GetFirstConstructorWithBody(node) IN
    IF c # 0 THEN BodyStatements(node.members[c], InitialSuperCall(node, hasBaseType))
    ELSE <<>>

\* Lines 263-297: the visited statements are emitted, the buffer becomes the
\* body and is popped, the constructor is updated or created.
FinishConstructor(ctx, node, hasBaseType, visitedStatements) ==
    LET c == GetFirstConstructorWithBody(node)
        parameters == IF c # 0 THEN VisitParameters(node.members[c].parameters)
                      ELSE IF hasBaseType THEN <<RestParameter>> ELSE <<>>
        c5 == IF c # 0 THEN EmitStatements(ctx, visitedStatements) ELSE ctx
        r == SynthesizedBody(c5)
        comments == IF c # 0
                    THEN OverloadCommentRanges(node) \o GetLeadingCommentRanges(node, c)
                    ELSE OverloadCommentRanges(node)
    IN [ctx |-> r.ctx,
        ctor |-> ConstructorNode(IF c # 0 THEN "updated" ELSE "created", c,
                                 parameters, r.body, comments)]

\* History: a call of transformConstructor on class node, entered with the
\* buffers and trace of entry, returning constructor with the buffers after.
ConstructorCall(node, entry, after, traceLength, constructor) ==
    [class |-> node.name,
     fast |-> constructor = Undefined \/ constructor.origin \in {"original", "clone"},
     before |-> entry.statements, after |-> after,
     from |-> entry.from, to |-> traceLength,
     body |-> IF constructor = Undefined THEN <<>> ELSE constructor.body]

\* ----------------------------------------------------------------- members
MemberNode(kind, i, static, name, parameters) ==
    [kind |-> kind, origin |-> "updated", original |-> i,
     static |-> static, decorators |-> 0, name |-> name,
     parameters |-> parameters, body |-> <<>>, comments |-> <<>>]

\* transformNodeWorker on member i: the lowered member, or Undefined when the
\* member is elided.
TransformClassElement(ctx, node, i) ==
    LET m == node.members[i] IN
    IF m.ambient
    THEN [ctx |-> ctx, node |-> Undefined]
    ELSE IF m.kind \in {"Constructor", "PropertyDeclaration"}
    THEN [ctx |-> ctx, node |-> Undefined]
    ELSE IF m.kind = "MethodDeclaration" /\ ~m.hasBody
    THEN [ctx |-> ctx,
          node |-> MemberNode("MissingDeclaration", i, m.static, Undefined, <<>>)]
    ELSE LET r == TransformPropertyName(ctx, node, i, FALSE)
         IN [ctx |-> r.ctx,
             node |-> MemberNode(m.kind, i, m.static, r.name, VisitParameters(m.parameters))]

RECURSIVE VisitClassElements(_, _, _)
VisitClassElements(ctx, node, i) ==
    IF i > Len(node.members) THEN [ctx |-> ctx, nodes |-> <<>>]
    ELSE LET r == TransformClassElement(ctx, node, i)
             rest == VisitClassElements(r.ctx, node, i + 1)
         IN [ctx |-> rest.ctx,
             nodes |-> (IF r.node = Undefined THEN <<>> ELSE <<r.node>>) \o rest.nodes]

TransformHeritageClauses(node) ==
    IF node.hasBaseType
    THEN <<[kind |-> "HeritageClause", token |-> "extends", typeArguments |-> FALSE]>>
    ELSE <<>>

\* -------------------------------------------------------------- decorators
DecoratorExpression(owner, k) ==
    TransformNode([kind |-> "DecoratorExpression", owner |-> owner, index |-> k])

\* The expressions of the decorators of an owner that carries n decorators.
DecoratorExpressions(owner, n) == [k \in 1..n |-> DecoratorExpression(owner, k)]

ParamCall(parameterIndex, expression) ==
    [kind |-> "ParamCall", index |-> parameterIndex, expression |-> expression]

RECURSIVE Flatten(_)
Flatten(seqs) == IF seqs = <<>> THEN <<>> ELSE Head(seqs) \o Flatten(Tail(seqs))

\* The __param calls numbered from one.
EmitDecoratorsOfParameters_OneBased(owner, parameters) ==
    Flatten([i \in 1..Len(parameters) |->
                [k \in 1..parameters[i].decorators |->
                    ParamCall(i, DecoratorExpression(<<"parameter", owner, i>>, k))]])

\* The __param calls for the parameters of declaration owner (a member
\* index): parameter by parameter, decorator by decorator.
EmitDecoratorsOfParameters(owner, parameters) ==
    Flatten([i \in 1..Len(parameters) |->
                [k \in 1..parameters[i].decorators |->
                    ParamCall(i - 1, DecoratorExpression(<<"parameter", owner, i>>, k))]])

ShouldEmitTypeMetadata(kind) ==
    kind \in {"MethodDeclaration", "GetAccessor", "SetAccessor", "PropertyDeclaration"}

ShouldEmitReturnTypeMetadata(kind) == kind = "MethodDeclaration"

ShouldEmitParamTypesMetadata(kind) ==
    kind \in {"ClassDeclaration", "MethodDeclaration", "SetAccessor"}

MetadataCall(tag) == [kind |-> "MetadataCall", tag |-> tag]

EmitSerializedTypeMetadata(kind) ==
    (IF ShouldEmitTypeMetadata(kind) THEN <<MetadataCall("design:type")>> ELSE <<>>)
    \o (IF ShouldEmitParamTypesMetadata(kind) THEN <<MetadataCall("design:paramtypes")>> ELSE <<>>)
    \o (IF ShouldEmitReturnTypeMetadata(kind) THEN <<MetadataCall("design:returntype")>> ELSE <<>>)

\* The accessors of the class that share the name and static flag of accessor
\* i, by declaration order and by kind (0 when there is none).
GetAllAccessorDeclarations(ms, i) ==
    IF ms[i].nameKind = "ComputedPropertyName"
    THEN [firstAccessor |-> i, secondAccessor |-> 0,
          getAccessor |-> IF ms[i].kind = "GetAccessor" THEN i ELSE 0,
          setAccessor |-> IF ms[i].kind = "SetAccessor" THEN i ELSE 0]
    ELSE LET Same(j) == /\ IsAccessorKind(ms[j].kind)
                        /\ ms[j].static = ms[i].static
                        /\ ms[j].nameKind # "ComputedPropertyName"
                        /\ ms[j].name = ms[i].name
             same == SelectIndices([j \in 1..Len(ms) |-> Same(j)], 1)
             gets == SelectIndices([j \in 1..Len(ms) |-> Same(j) /\ ms[j].kind = "GetAccessor"], 1)
             sets == SelectIndices([j \in 1..Len(ms) |-> Same(j) /\ ms[j].kind = "SetAccessor"], 1)
         IN [firstAccessor |-> same[1],
             secondAccessor |-> IF Len(same) > 1 THEN same[2] ELSE 0,
             getAccessor |-> IF gets = <<>> THEN 0 ELSE gets[1],
             setAccessor |-> IF sets = <<>> THEN 0 ELSE sets[1]]

GetClassMemberPrefix(node, m) ==
    [kind |-> "ClassMemberPrefix", class |-> GetDeclarationName(node), prototype |-> ~m.static]

EmitDecoratorsOfMember(ctx, node, i) ==
    LET m == node.members[i]
        isAccessor == IsAccessorKind(m.kind) /\ m.hasBody
        accessors == GetAllAccessorDeclarations(node.members, i)
    IN
    IF isAccessor /\ i # accessors.firstAccessor THEN ctx
    ELSE
    LET decorated ==
            IF isAccessor
            THEN IF node.members[accessors.firstAccessor].decorators = 0
                    /\ accessors.secondAccessor # 0
                 THEN accessors.secondAccessor
                 ELSE accessors.firstAccessor
            ELSE i
        parameterOwner ==
            IF isAccessor THEN accessors.setAccessor
            ELSE IF m.kind = "MethodDeclaration" /\ m.hasBody THEN i ELSE 0
        decoratorExpressions ==
            DecoratorExpressions(<<"member", decorated, 0>>, node.members[decorated].decorators)
            \o (IF parameterOwner # 0
                THEN EmitDecoratorsOfParameters(parameterOwner,
                         node.members[parameterOwner].parameters)
                ELSE <<>>)
            \o (IF ctx.emitDecoratorMetadata THEN EmitSerializedTypeMetadata(node.kind) ELSE <<>>)
        prefix == GetClassMemberPrefix(node, m)
        n1 == GetExpressionForPropertyName(ctx, node, i)
        decorateCall == [list |-> decoratorExpressions, target |-> prefix, name |-> n1.name]
    IN
    IF m.kind = "PropertyDeclaration"
    THEN EmitStatement(n1.ctx,
            [kind |-> "DecoratorStatement", member |-> i, callee |-> "__decorate",
             target |-> prefix, name |-> n1.name,
             decorate |-> decorateCall, descriptor |-> Undefined])
    ELSE LET n2 == GetExpressionForPropertyName(n1.ctx, node, i)
             n3 == GetExpressionForPropertyName(n2.ctx, node, i)
         IN EmitStatement(n3.ctx,
               [kind |-> "DecoratorStatement", member |-> i,
                callee |-> "Object.defineProperty",
                target |-> prefix, name |-> n3.name,
                decorate |-> decorateCall,
                descriptor |-> [callee |-> "Object.getOwnPropertyDescriptor",
                                target |-> prefix, name |-> n2.name]])

RECURSIVE EmitDecoratorsOfMembers(_, _, _, _)
EmitDecoratorsOfMembers(ctx, node, isStatic, i) ==
    IF i > Len(node.members) THEN ctx
    ELSE LET m == node.members[i]
             skip == \/ isStatic # m.static
                     \/ ~NodeCanBeDecorated(m)
                     \/ ~NodeOrChildIsDecorated(m)
         IN EmitDecoratorsOfMembers(
                IF skip THEN ctx ELSE EmitDecoratorsOfMember(ctx, node, i),
                node, isStatic, i + 1)

EmitDecoratorsOfConstructor(ctx, node) ==
    LET c == GetFirstConstructorWithBody(node)
        hasDecoratedParameters ==
            /\ c # 0
            /\ \E k \in 1..Len(node.members[c].parameters) :
                  ParameterIsDecorated(node.members[c].parameters[k])
    IN
    IF node.decorators = 0 /\ ~hasDecoratedParameters THEN ctx
    ELSE
    LET decoratorExpressions ==
            DecoratorExpressions(<<"class", 0, 0>>, node.decorators)
            \o (IF c # 0
                THEN EmitDecoratorsOfParameters(c, node.members[c].parameters)
                ELSE <<>>)
            \o (IF ctx.emitDecoratorMetadata THEN EmitSerializedTypeMetadata(node.kind) ELSE <<>>)
    IN EmitStatement(ctx,
          [kind |-> "ClassDecorateAssignment", left |-> GetDeclarationName(node),
           callee |-> "__decorate", list |-> decoratorExpressions,
           target |-> GetDeclarationName(node)])

\* The static members decorated before the instance members.
EmitDecoratorsOfClass_StaticFirst(ctx, node) ==
    EmitDecoratorsOfConstructor(
        EmitDecoratorsOfMembers(
            EmitDecoratorsOfMembers(ctx, node, TRUE, 1), node, FALSE, 1),
        node)

EmitDecoratorsOfClass(ctx, node) ==
    EmitDecoratorsOfConstructor(
        EmitDecoratorsOfMembers(
            EmitDecoratorsOfMembers(ctx, node, FALSE, 1), node, TRUE, 1),
        node)

\* ------------------------------------------------------------------ actions
Pending == [kind |-> "pending"]

Start(node, metadata) ==
    /\ cls = node
    /\ emitDecoratorMetadata = metadata
    /\ pc = "start"
    /\ statements = << <<>> >>
    /\ generated = {}
    /\ hoisted = <<>>
    /\ pushCount = 0
    /\ ctor = Pending
    /\ members = <<>>
    /\ newNode = Undefined
    /\ result = Pending
    /\ pending = <<>>
    /\ visited = <<>>
    /\ callers = <<>>
    /\ outputBase = [depth |-> 1, length |-> 0]
    /\ ctorEntry = [statements |-> << <<>> >>, from |-> 0]
    /\ trace = <<>>
    /\ calls = <<>>

\* The constructor (after its overload signatures) is declared before or after
\* the fields.  A class without a constructor implementation has no overload
\* signatures; a class without a base type calls no base constructor.
InitConstructorClass ==
    \E hasBase \in BOOLEAN, fs \in SeqsUpTo(FieldShapes, MaxMembers), first \in BOOLEAN :
        \/ first /\ Start(Class(0, hasBase, WithNames(fs)), FALSE)
        \/ \E o \in OverloadLists, ps \in ParameterLists(BOOLEAN, {0}),
              superFirst \in (IF hasBase THEN BOOLEAN ELSE {FALSE}), n \in 0..MaxBody :
              LET g == o \o <<Constructor(ps, Body(superFirst, n))>>
              IN Start(Class(0, hasBase, WithNames(IF first THEN g \o fs ELSE fs \o g)), FALSE)

InitDecoratedClass ==
    \E decs \in 0..MaxDecorators, md \in BOOLEAN, tail \in DecoratedClassTails :
        \/ Start(Class(decs, FALSE, WithNames(tail)), md)
        \/ \E ps \in ParameterLists({FALSE}, 0..MaxDecorators) :
              Start(Class(decs, FALSE, WithNames(<<Constructor(ps, Body(FALSE, 0))>> \o tail)), md)

\* A class declares at most one get and one set accessor of a name.
NoDuplicateAccessors(ms) ==
    \A i, j \in 1..Len(ms) :
        (i < j /\ IsAccessorKind(ms[i].kind) /\ ms[i].kind = ms[j].kind)
        => ms[i].static # ms[j].static

InitDecoratedMemberClass ==
    \E decs \in {0, 1}, md \in BOOLEAN, paramDecs \in {0, 1} :
        \E ms \in SeqsUpTo(MemberShapes(paramDecs), MaxMembers) :
            /\ NoDuplicateAccessors(ms)
            /\ Start(Class(decs, FALSE, WithNames(ms)), md)

InitNamedMemberClass ==
    \E decs \in {0, 1}, m \in NamedMembers \cup DeclarationOnlyMembers :
        Start(Class(decs, FALSE, WithNames(<<m>>)), FALSE)

\* Class expressions: fields with and without initializer, static and not,
\* an optional constructor (after its overload signatures) before or after
\* them; decorated or not.
InitClassExpression ==
    \E decs \in {0, 1}, hasBase \in BOOLEAN, fs \in SeqsUpTo(FieldShapes, MaxMembers) :
        \/ Start(ClassExpression(decs, hasBase, WithNames(fs)), FALSE)
        \/ /\ decs = 0
           /\ \E first \in BOOLEAN, o \in OverloadLists, ps \in ParameterLists(BOOLEAN, {0}),
                 superFirst \in (IF hasBase THEN BOOLEAN ELSE {FALSE}) :
                 LET g == o \o <<Constructor(ps, Body(superFirst, 1))>>
                 IN Start(ClassExpression(0, hasBase,
                              WithNames(IF first THEN g \o fs ELSE fs \o g)), FALSE)

\* Classes whose constructor body declares a class: after an optional base
\* constructor call and an optional statement, before a last statement; with
\* and without an initialized field that asks for constructor synthesis.
InitNestedClass ==
    \E decs \in {0, 1}, hasBase \in BOOLEAN, synthesized \in BOOLEAN, n \in {0, 1},
       inner \in NestedClasses(MaxNesting) :
        \E superFirst \in (IF hasBase THEN BOOLEAN ELSE {FALSE}) :
            LET body == Body(superFirst, n) \o <<inner, PlainStatement(n + 1)>>
                fields == IF synthesized
                          THEN <<Property(FALSE, 0, "Identifier", 0, TRUE)>> ELSE <<>>
            IN Start(Class(decs, hasBase, WithNames(fields \o <<Constructor(<<>>, body)>>)),
                     FALSE)

\* Classes whose constructor follows another member: a method, then the
\* overload signatures and the constructor (with or without a parameter
\* property), then nothing, an accessor or an initialized field; class
\* declarations and class expressions.
InitRepositionedConstructorClass ==
    \E expression \in BOOLEAN, hasBase \in BOOLEAN, o \in OverloadLists, access \in BOOLEAN,
       after \in {<<>>, <<GetAccessor(FALSE, 0, "Identifier", 1)>>,
                  <<Property(FALSE, 0, "Identifier", 0, TRUE)>>} :
        LET ms == <<Method(FALSE, 0, "Identifier", 0, 0)>> \o o
                  \o <<Constructor(<<Param(1, access, 0)>>, Body(hasBase, 1))>> \o after
        IN Start(IF expression THEN ClassExpression(0, hasBase, WithNames(ms))
                 ELSE Class(0, hasBase, WithNames(ms)), FALSE)

Init ==
    \/ InitNestedClass
    \/ InitRepositionedConstructorClass
    \/ InitConstructorClass
    \/ InitDecoratedClass
    \/ InitDecoratedMemberClass
    \/ InitNamedMemberClass
    \/ InitClassExpression

SetContext(ctx) ==
    /\ statements' = ctx.statements
    /\ generated' = ctx.generated
    /\ hoisted' = ctx.hoisted
    /\ pushCount' = ctx.pushCount
    /\ trace' = ctx.trace

\* transformClassExpression, lines 143-145: a decorated class expression is
\* returned as it is.
DecoratedClassExpressionStep ==
    /\ pc = "start"
    /\ cls.kind = "ClassExpression"
    /\ cls.decorators > 0
    /\ result' = cls
    /\ pc' = "done"
    /\ UNCHANGED <<cls, emitDecoratorMetadata, statements, generated, hoisted,
                   pushCount, ctor, members, newNode, trace>>
    /\ UNCHANGED constructorVars

\* transformClassDeclaration, line 99, and transformClassExpression, line
\* 150, enter transformConstructor.  Lines 185-207: without assignments to
\* emit, the constructor is returned at once.
ReturnConstructorStep ==
    /\ pc = "start"
    /\ cls.kind = "ClassExpression" => cls.decorators = 0
    /\ HasNoPropertyAssignments(cls)
    /\ ctor' = FastPathConstructor(cls, GetFirstConstructorWithBody(cls))
    /\ ctorEntry' = [statements |-> statements, from |-> Len(trace)]
    /\ calls' = Append(calls,
                  ConstructorCall(cls, [statements |-> statements, from |-> Len(trace)],
                      statements, Len(trace),
                      FastPathConstructor(cls, GetFirstConstructorWithBody(cls))))
    /\ pc' = "members"
    /\ UNCHANGED <<cls, emitDecoratorMetadata, statements, generated, hoisted,
                   pushCount, members, newNode, result, trace>>
    /\ UNCHANGED <<pending, visited, callers, outputBase>>

\* transformConstructor, lines 209-262: the buffer is pushed and filled up to
\* the instance property assignments; the body statements wait to be visited.
TransformConstructorStep ==
    /\ pc = "start"
    /\ cls.kind = "ClassExpression" => cls.decorators = 0
    /\ ~HasNoPropertyAssignments(cls)
    /\ SetContext(EmitConstructorPrologue(Context, cls, cls.hasBaseType))
    /\ pending' = StatementsToVisit(cls, cls.hasBaseType)
    /\ visited' = <<>>
    /\ ctorEntry' = [statements |-> statements, from |-> Len(trace)]
    /\ pc' = "body"
    /\ UNCHANGED <<cls, emitDecoratorMetadata, ctor, members, newNode, result>>
    /\ UNCHANGED <<callers, outputBase, calls>>

\* visitNodes, line 263, on a statement without TypeScript syntax:
\* transformNode returns it (line 19).
VisitStatementStep ==
    /\ pc = "body"
    /\ pending # <<>>
    /\ Head(pending).kind # "ClassDeclaration"
    /\ visited' = Append(visited, TransformNode(Head(pending)))
    /\ pending' = Tail(pending)
    /\ UNCHANGED <<cls, emitDecoratorMetadata, pc, statements, generated, hoisted,
                   pushCount, ctor, members, newNode, result, trace>>
    /\ UNCHANGED <<callers, outputBase, ctorEntry, calls>>

\* visitNodes, line 263, on a class declaration with TypeScript syntax:
\* transformNode hands it to transformNodeWorker, which calls
\* transformClassDeclaration (lines 12-13, 48-51).  The call in progress is
\* suspended.
EnterClassDeclarationStep ==
    /\ pc = "body"
    /\ pending # <<>>
    /\ Head(pending).kind = "ClassDeclaration"
    /\ callers' = Append(callers,
                    [cls |-> cls, pending |-> Tail(pending), visited |-> visited,
                     outputBase |-> outputBase, ctorEntry |-> ctorEntry])
    /\ cls' = Head(pending)
    /\ pc' = "start"
    /\ ctor' = Pending
    /\ members' = <<>>
    /\ newNode' = Undefined
    /\ result' = Pending
    /\ pending' = <<>>
    /\ visited' = <<>>
    /\ outputBase' = [depth |-> Len(statements),
                      length |-> Len(statements[Len(statements)])]
    /\ UNCHANGED <<emitDecoratorMetadata, statements, generated, hoisted, pushCount,
                   ctorEntry, trace, calls>>

\* transformClassDeclaration returns to visitNodes: the suspended call goes
\* on with the next statement; a node that came back undefined is left out.
ReturnToConstructorStep ==
    /\ pc = "done"
    /\ callers # <<>>
    /\ LET caller == callers[Len(callers)]
       IN /\ cls' = caller.cls
          /\ pending' = caller.pending
          /\ visited' = caller.visited \o (IF result = Undefined THEN <<>> ELSE <<result>>)
          /\ outputBase' = caller.outputBase
          /\ ctorEntry' = caller.ctorEntry
    /\ callers' = SubSeq(callers, 1, Len(callers) - 1)
    /\ pc' = "body"
    /\ ctor' = Pending
    /\ members' = <<>>
    /\ newNode' = Undefined
    /\ result' = Pending
    /\ UNCHANGED <<emitDecoratorMetadata, statements, generated, hoisted, pushCount,
                   trace, calls>>

\* transformConstructor, lines 263-298: the visited statements are emitted,
\* the body is built from the buffer, the buffer is popped.
FinishConstructorStep ==
    /\ pc = "body"
    /\ pending = <<>>
    /\ LET r == FinishConstructor(Context, cls, cls.hasBaseType, visited)
       IN /\ SetContext(r.ctx)
          /\ ctor' = r.ctor
          /\ calls' = Append(calls,
                ConstructorCall(cls, ctorEntry, r.ctx.statements, Len(r.ctx.trace), r.ctor))
    /\ pc' = "members"
    /\ UNCHANGED <<cls, emitDecoratorMetadata, members, newNode, result>>
    /\ UNCHANGED <<pending, visited, callers, outputBase, ctorEntry>>

\* The constructor placed after the visited members.
PrependConstructor_Last(constructor, visitedMembers) ==
    visitedMembers \o (IF constructor # Undefined THEN <<constructor>> ELSE <<>>)

\* lines 101-103 (and 152-154): if (ctor) members = [ctor, ...members].
PrependConstructor(constructor, visitedMembers) ==
    (IF constructor # Undefined THEN <<constructor>> ELSE <<>>) \o visitedMembers

\* lines 100-103: the members are visited and the constructor is prepended.
VisitMembersStep ==
    /\ pc = "members"
    /\ LET r == VisitClassElements(Context, cls, 1)
       IN /\ SetContext(r.ctx)
          /\ members' = PrependConstructor(ctor, r.nodes)
    /\ pc' = "class"
    /\ UNCHANGED <<cls, emitDecoratorMetadata, ctor, newNode, result>>
    /\ UNCHANGED constructorVars

\* The class expression keeps the public name.
DecoratedClassStatement_PublicName(node, ms) ==
    [kind |-> "VariableStatement", flags |-> "Let",
     name |-> node.name,
     initializer |-> [kind |-> "ClassExpression",
                      name |-> node.name,
                      heritageClauses |-> TransformHeritageClauses(node),
                      members |-> ms],
     original |-> "class"]

\* lines 105-118: a decorated class becomes `let C = class C_1 { ... }`,
\* emitted to the current statement buffer.
DecoratedClassStatement(node, ms) ==
    [kind |-> "VariableStatement", flags |-> "Let",
     name |-> GetDeclarationName(node),
     initializer |-> [kind |-> "ClassExpression",
                      name |-> CreateUniqueIdentifier(node.name.text, {node.name}),
                      heritageClauses |-> TransformHeritageClauses(node),
                      members |-> ms],
     original |-> "class"]

\* lines 119-129: an undecorated class is rebuilt under its own name.
UpdatedClassDeclaration(node, ms) ==
    [kind |-> "ClassDeclaration", decorators |-> 0, name |-> node.name,
     heritageClauses |-> TransformHeritageClauses(node), members |-> ms,
     original |-> "class"]

\* The statements transformClassDeclaration emits for the class node itself.
EmittedClassStatements(node, ms) ==
    IF node.decorators > 0 THEN <<DecoratedClassStatement(node, ms)>> ELSE <<>>

EmitClassStep ==
    /\ pc = "class"
    /\ cls.kind = "ClassDeclaration"
    /\ newNode' = IF cls.decorators > 0 THEN DecoratedClassStatement(cls, members)
                  ELSE UpdatedClassDeclaration(cls, members)
    /\ SetContext(EmitStatements(Context, EmittedClassStatements(cls, members)))
    /\ pc' = "static"
    /\ UNCHANGED <<cls, emitDecoratorMetadata, ctor, members, result>>
    /\ UNCHANGED constructorVars

\* lines 156-164: the class expression rebuilt without TypeScript syntax.
UpdatedClassExpression(node, ms) ==
    [kind |-> "ClassExpression", decorators |-> 0, name |-> node.name,
     heritageClauses |-> TransformHeritageClauses(node), members |-> ms,
     original |-> "class"]

\* lines 166-178: with static property assignments the result is
\* (temp = class ..., <assignments>, temp); without, the class expression.
ClassExpressionResult(ctx, node, built) ==
    LET staticPropertyAssignments == GetInitializedProperties(node, TRUE) IN
    IF staticPropertyAssignments # <<>>
    THEN LET t == DeclareLocal(ctx)
             r == TransformPropertyDeclarations(t.ctx, node, staticPropertyAssignments)
         IN [ctx |-> r.ctx,
             value |-> [kind |-> "ParenthesizedExpression",
                        expressions |->
                            <<[kind |-> "Assignment", left |-> t.local, right |-> built]>>
                            \o r.expressions \o <<t.local>>]]
    ELSE [ctx |-> ctx, value |-> built]

\* transformClassExpression, lines 156-178.
ClassExpressionStep ==
    /\ pc = "class"
    /\ cls.kind = "ClassExpression"
    /\ newNode' = UpdatedClassExpression(cls, members)
    /\ LET r == ClassExpressionResult(Context, cls, UpdatedClassExpression(cls, members))
       IN /\ SetContext(r.ctx)
          /\ result' = r.value
    /\ pc' = "done"
    /\ UNCHANGED <<cls, emitDecoratorMetadata, ctor, members>>
    /\ UNCHANGED constructorVars

\* lines 131-134: the static property assignments.
EmitStaticPropertiesStep ==
    /\ pc = "static"
    /\ SetContext(EmitPropertyDeclarations(Context, cls, GetInitializedProperties(cls, TRUE)))
    /\ pc' = "decorators"
    /\ UNCHANGED <<cls, emitDecoratorMetadata, ctor, members, newNode, result>>
    /\ UNCHANGED constructorVars

\* What transformClassDeclaration returns (line 138).
ReturnValue(node, built) == Undefined

\* lines 137-138: the decorator statements, and the return.
EmitDecoratorsStep ==
    /\ pc = "decorators"
    /\ SetContext(EmitDecoratorsOfClass(Context, cls))
    /\ result' = ReturnValue(cls, newNode)
    /\ pc' = "done"
    /\ UNCHANGED <<cls, emitDecoratorMetadata, ctor, members, newNode>>
    /\ UNCHANGED constructorVars

Next ==
    \/ ReturnConstructorStep
    \/ TransformConstructorStep
    \/ VisitStatementStep
    \/ EnterClassDeclarationStep
    \/ ReturnToConstructorStep
    \/ FinishConstructorStep
    \/ VisitMembersStep
    \/ EmitClassStep
    \/ EmitStaticPropertiesStep
    \/ EmitDecoratorsStep
    \/ DecoratedClassExpressionStep
    \/ ClassExpressionStep

Spec == Init /\ [][Next]_vars

\* ------------------------------------------------------------------ claims
\* Vocabulary of the claims.
TheConstructor == GetFirstConstructorWithBody(cls)

OriginalBody == cls.members[TheConstructor].body

OriginalParameters == cls.members[TheConstructor].parameters

ParameterProperties ==
    IF TheConstructor = 0 THEN {}
    ELSE {k \in 1..Len(OriginalParameters) : OriginalParameters[k].accessibility}

InitializedFields(static) ==
    {i \in 1..Len(cls.members) :
        /\ cls.members[i].kind = "PropertyDeclaration"
        /\ cls.members[i].initializer
        /\ cls.members[i].static = static}

StartsWithSuperCall ==
    /\ TheConstructor # 0
    /\ Len(OriginalBody) > 0
    /\ OriginalBody[1].kind = "SuperCall"

ConstructorDone == ctor # Pending

\* The constructor is synthesized: some parameter property or initialized
\* instance field asks for an assignment in its body.
Synthesized == ParameterProperties # {} \/ InitializedFields(FALSE) # {}

PositionsOf(body, kind) == {k \in 1..Len(body) : body[k].kind = kind}

\* C1: for a class with a base type whose constructor body starts with a base
\* constructor call and that has a parameter property or an initialized
\* instance field, the synthesized body holds that call exactly once, as its
\* first statement.
C1_SuperCallOnceAndFirst ==
    (ConstructorDone /\ cls.hasBaseType /\ StartsWithSuperCall /\ Synthesized)
    => /\ ctor # Undefined
       /\ Len(ctor.body) > 0
       /\ ctor.body[1] = OriginalBody[1]
       /\ PositionsOf(ctor.body, "SuperCall") = {1}

\* C2: when the constructor is synthesized from a constructor whose body does
\* not start with a base constructor call, every statement of the original
\* body appears exactly once, in order, after all parameter-property and
\* field-initializer assignments.
C2_BodyKeptAfterAssignments ==
    (ConstructorDone /\ TheConstructor # 0 /\ Synthesized /\ ~StartsWithSuperCall)
    => LET assignments == Cardinality(ParameterProperties)
                          + Cardinality(InitializedFields(FALSE))
       IN /\ ctor # Undefined
          /\ Len(ctor.body) = assignments + Len(OriginalBody)
          /\ \A k \in 1..assignments :
                ctor.body[k].kind \in {"ParameterPropertyAssignment", "PropertyAssignment"}
          /\ \A k \in 1..Len(OriginalBody) :
                ctor.body[assignments + k] = OriginalBody[k]

\* The parameter-property assignments of the synthesized body, one per
\* accessibility-qualified parameter, in parameter order.
ParameterAssignmentsInOrder ==
    LET at == PositionsOf(ctor.body, "ParameterPropertyAssignment") IN
    /\ Cardinality(at) = Cardinality(ParameterProperties)
    /\ \A p \in ParameterProperties :
          \E k \in at : ctor.body[k] = ParameterPropertyAssignment(OriginalParameters[p])
    /\ \A p, q \in ParameterProperties : \A j, k \in at :
          ( /\ p < q
            /\ ctor.body[j] = ParameterPropertyAssignment(OriginalParameters[p])
            /\ ctor.body[k] = ParameterPropertyAssignment(OriginalParameters[q]) ) => j < k

ParameterAssignmentsBeforeFields ==
    \A j \in PositionsOf(ctor.body, "ParameterPropertyAssignment") :
        \A k \in PositionsOf(ctor.body, "PropertyAssignment") : j < k

ParameterAssignmentsAfterSuperCalls ==
    \A j \in PositionsOf(ctor.body, "ParameterPropertyAssignment") :
        \A k \in PositionsOf(ctor.body, "SuperCall") : k < j

\* C3: for a class whose constructor has an accessibility-qualified
\* parameter, the synthesized body holds exactly one this.<name> = <name> per
\* such parameter, in parameter order, each after any base constructor call of
\* the body and before every field-initializer assignment.
C3_ParameterAssignmentsPlaced ==
    (ConstructorDone /\ ParameterProperties # {})
    => /\ ctor # Undefined
       /\ ParameterAssignmentsInOrder
       /\ ParameterAssignmentsBeforeFields
       /\ ParameterAssignmentsAfterSuperCalls

\* The part of C3 that the repeated base constructor call leaves standing.
C3_CountOrderAndFields ==
    (ConstructorDone /\ ParameterProperties # {})
    => /\ ctor # Undefined
       /\ ParameterAssignmentsInOrder
       /\ ParameterAssignmentsBeforeFields

\* No constructor parameter carries an accessibility modifier and no field
\* carries an initializer.
FastPath ==
    /\ ParameterProperties = {}
    /\ InitializedFields(FALSE) = {}
    /\ InitializedFields(TRUE) = {}

PinnedOverloads ==
    {i \in 1..Len(cls.members) :
        /\ cls.members[i].kind = "Constructor"
        /\ ~cls.members[i].hasBody
        /\ cls.members[i].pinnedComment}

\* The constructor node is the original one: same node, nothing attached.
IsOriginalConstructor(c) ==
    /\ c.kind = "Constructor"
    /\ c.origin = "original"
    /\ c.original = TheConstructor
    /\ c.parameters = OriginalParameters
    /\ c.body = OriginalBody
    /\ c.comments = <<>>

\* Nothing was pushed, and right after transformConstructor nothing was
\* emitted either: buffers and trace are those of its entry.
NothingPushedOrEmitted ==
    /\ callers = <<>> => pushCount = 0
    /\ pc = "members" => /\ statements = ctorEntry.statements
                         /\ Len(trace) = ctorEntry.from

\* C4 as stated: on the fast path the returned constructor is the original
\* node itself (or nothing when the class has none), and no statement buffer
\* is pushed nor any statement emitted.
C4_FastPathIdentity ==
    (ConstructorDone /\ FastPath)
    => /\ TheConstructor = 0 => ctor = Undefined
       /\ TheConstructor # 0 => IsOriginalConstructor(ctor)
       /\ NothingPushedOrEmitted

\* C4 amended: on the fast path the returned constructor is the original node
\* itself, unless an overload signature carries a pinned leading comment: then
\* it is a clone of the constructor, same parameters and body, with those
\* comments attached.  Nothing is returned when the class has no constructor
\* with a body; no statement buffer is pushed and no statement emitted.
C4_FastPathIdentityOrClone ==
    (ConstructorDone /\ FastPath)
    => /\ TheConstructor = 0 => ctor = Undefined
       /\ (TheConstructor # 0 /\ PinnedOverloads = {}) => IsOriginalConstructor(ctor)
       /\ (TheConstructor # 0 /\ PinnedOverloads # {})
          => /\ ctor.kind = "Constructor"
             /\ ctor.origin = "clone"
             /\ ctor.original = TheConstructor
             /\ ctor.parameters = OriginalParameters
             /\ ctor.body = OriginalBody
             /\ Range(ctor.comments) = PinnedOverloads
       /\ NothingPushedOrEmitted

C4_Witness ==
    /\ pc = "members"
    /\ FastPath
    /\ TheConstructor # 0
    /\ PinnedOverloads # {}
    /\ ctor.origin = "clone"
    /\ Len(OriginalBody) > 0

\* The synthesized constructor of a class with a base type and no constructor
\* of its own: constructor(...args) { super(...args); <field assignments> }
IsForwardingConstructor(c) ==
    /\ c.kind = "Constructor"
    /\ Len(c.parameters) = 1
    /\ c.parameters[1].rest
    /\ c.parameters[1].name = <<"args", 0>>
    /\ Len(c.body) > 0
    /\ c.body[1].kind = "SuperCall"
    /\ c.body[1].arguments = "...args"
    /\ PositionsOf(c.body, "SuperCall") = {1}

HasNoConstructor ==
    \A i \in 1..Len(cls.members) : cls.members[i].kind # "Constructor"

\* C5 as stated: every class with a base type and no explicit constructor
\* gets constructor(...args) { super(...args); }.
C5_ForwardingConstructorAlways ==
    (ConstructorDone /\ cls.hasBaseType /\ HasNoConstructor)
    => /\ ctor # Undefined
       /\ IsForwardingConstructor(ctor)

\* C5 amended: a class with a base type and no explicit constructor gets the
\* forwarding constructor, first in its member list, when it has an
\* initialized instance field; when it has none, no constructor is
\* synthesized for it.
C5_ForwardingConstructorWhenFieldsInitialized ==
    (ConstructorDone /\ cls.hasBaseType /\ HasNoConstructor)
    => IF InitializedFields(FALSE) # {}
       THEN /\ ctor # Undefined
            /\ IsForwardingConstructor(ctor)
            /\ pc \notin {"start", "members"} => (Len(members) > 0 /\ members[1] = ctor)
       ELSE /\ ctor = Undefined
            /\ \A k \in 1..Len(members) : members[k].kind # "Constructor"

C5_Witness ==
    /\ pc = "class"
    /\ cls.hasBaseType
    /\ HasNoConstructor
    /\ InitializedFields(FALSE) # {}
    /\ Len(members) > 0
    /\ IsForwardingConstructor(members[1])

\* The statements the lowering of the class has left in the statement buffer
\* that was current when it began.
Output ==
    SubSeq(statements[outputBase.depth], outputBase.length + 1,
           Len(statements[outputBase.depth]))

OutputPositions(kind) == PositionsOf(Output, kind)

\* C6: lowering an undecorated class declaration leaves, in the output, a
\* class declaration under the original name, directly followed by the static
\* field assignments; the class declaration is never lost.
C6_UndecoratedClassKept ==
    (pc = "done" /\ cls.kind = "ClassDeclaration" /\ cls.decorators = 0)
    => \/ /\ result.kind = "ClassDeclaration"
          /\ result.name = cls.name
       \/ \E k \in OutputPositions("ClassDeclaration") :
             /\ Output[k].name = cls.name
             /\ \A j \in OutputPositions("PropertyAssignment") :
                   k < j /\ j <= k + Cardinality(InitializedFields(TRUE))

ConstructorParamCall(p, q) ==
    [kind |-> "ParamCall", index |-> p - 1,
     expression |-> [kind |-> "DecoratorExpression",
                     owner |-> <<"parameter", TheConstructor, p>>, index |-> q]]

DecoratedConstructorParameters ==
    IF TheConstructor = 0 THEN {}
    ELSE {p \in 1..Len(OriginalParameters) : OriginalParameters[p].decorators > 0}

ConstructorParamDecorators ==
    IF TheConstructor = 0 THEN {}
    ELSE {pq \in (1..Len(OriginalParameters)) \X (1..MaxDecorators) :
            pq[2] <= OriginalParameters[pq[1]].decorators}

\* list is: the class decorators in source order, then the parameter
\* wrappers by parameter and by decorator, then metadata calls only.
IsClassDecoratorList(list) ==
    LET n == cls.decorators
        w == Cardinality(ConstructorParamDecorators)
    IN /\ Len(list) >= n + w
       /\ \A k \in 1..n :
             list[k] = [kind |-> "DecoratorExpression", owner |-> <<"class", 0, 0>>, index |-> k]
       /\ \A k \in (n + 1)..(n + w) : list[k].kind = "ParamCall"
       /\ \A pq \in ConstructorParamDecorators :
             \E k \in (n + 1)..(n + w) : list[k] = ConstructorParamCall(pq[1], pq[2])
       /\ \A j, k \in (n + 1)..(n + w) :
             j < k => \/ list[j].index < list[k].index
                      \/ /\ list[j].index = list[k].index
                         /\ list[j].expression.index < list[k].expression.index
       /\ \A k \in (n + w + 1)..Len(list) : list[k].kind = "MetadataCall"
       /\ Len(list) > n + w => emitDecoratorMetadata

\* C8: the class-level decorate call lists the class decorators in source
\* order, then one param(index, decorator) per decorator of each decorated
\* constructor parameter, by ascending index and in source order within a
\* parameter, then the metadata calls; the call is skipped when neither the
\* class nor a constructor parameter is decorated.
C8_ClassDecoratorList ==
    (pc = "done" /\ cls.kind = "ClassDeclaration")
    => IF cls.decorators = 0 /\ DecoratedConstructorParameters = {}
       THEN OutputPositions("ClassDecorateAssignment") = {}
       ELSE /\ Cardinality(OutputPositions("ClassDecorateAssignment")) = 1
            /\ \A d \in OutputPositions("ClassDecorateAssignment") :
                  IsClassDecoratorList(Output[d].list)

C8_Witness ==
    /\ pc = "done"
    /\ cls.kind = "ClassDeclaration"
    /\ cls.decorators = MaxDecorators
    /\ Cardinality(DecoratedConstructorParameters) = MaxParams
    /\ Cardinality(ConstructorParamDecorators) > MaxParams
    /\ emitDecoratorMetadata
    /\ \E d \in OutputPositions("ClassDecorateAssignment") :
          Len(Output[d].list) > cls.decorators + Cardinality(ConstructorParamDecorators)

\* The decorated static members with a computed name that have a definition
\* in the output: methods and accessors, and fields with an initializer.
ComputedDecoratedStaticMembers ==
    {i \in 1..Len(cls.members) :
        /\ cls.members[i].static
        /\ cls.members[i].decorators > 0
        /\ cls.members[i].nameKind = "ComputedPropertyName"
        /\ \/ cls.members[i].kind \in {"MethodDeclaration", "GetAccessor", "SetAccessor"}
           \/ cls.members[i].kind = "PropertyDeclaration" /\ cls.members[i].initializer}

\* An expression that evaluates the name expression of member i.
EvaluatesName(e, i) ==
    \/ e = NameExpression(i)
    \/ e.kind = "Assignment" /\ e.right = NameExpression(i)

\* The names the decorator statement st passes: to __decorate, to
\* getOwnPropertyDescriptor and to defineProperty.
NameArguments(st) ==
    IF st.callee = "__decorate" THEN <<st.decorate.name>>
    ELSE <<st.decorate.name, st.descriptor.name, st.name>>

\* The places of the output where the name of member i stands.
DefinitionNames(i) ==
    {members[k].name : k \in {k \in 1..Len(members) :
                                 members[k].kind # "Constructor" /\ members[k].original = i}}
    \cup {Output[k].name : k \in {k \in OutputPositions("PropertyAssignment") :
                                     Output[k].original = i}}

MemberDecoratorStatements(i) ==
    {k \in OutputPositions("DecoratorStatement") : Output[k].member = i}

\* C9: for a decorated static member with a computed name, the name
\* expression stands once in the output, assigned to a hoisted generated local
\* at the member definition, and every name argument of the member's
\* decorator statement is that generated identifier.
C9_ComputedNameEvaluatedOnce ==
    pc = "done"
    => \A i \in ComputedDecoratedStaticMembers :
          /\ DefinitionNames(i) =
                {ComputedPropertyName(i, [kind |-> "Assignment",
                                          left |-> GeneratedIdentifier(i),
                                          right |-> NameExpression(i)])}
          /\ GeneratedIdentifier(i) \in Range(hoisted)
          /\ Cardinality(MemberDecoratorStatements(i)) = 1
          /\ \A k \in MemberDecoratorStatements(i) :
                \A a \in 1..Len(NameArguments(Output[k])) :
                    NameArguments(Output[k])[a] = GeneratedIdentifier(i)

\* The part of C9 the absent name arguments leave standing: the name
\* expression is evaluated once, at the definition, and never in the
\* decorator statement.
C9_NoSecondEvaluation ==
    pc = "done"
    => \A i \in ComputedDecoratedStaticMembers :
          /\ Cardinality(DefinitionNames(i)) = 1
          /\ \A k \in MemberDecoratorStatements(i) :
                \A a \in 1..Len(NameArguments(Output[k])) :
                    ~EvaluatesName(NameArguments(Output[k])[a], i)

\* The get/set pairs <<g, s>> of one name and static flag in which only the
\* setter is decorated.
SetterDecoratedPairs ==
    {gs \in (1..Len(cls.members)) \X (1..Len(cls.members)) :
        /\ cls.members[gs[1]].kind = "GetAccessor"
        /\ cls.members[gs[2]].kind = "SetAccessor"
        /\ cls.members[gs[1]].static = cls.members[gs[2]].static
        /\ cls.members[gs[1]].nameKind # "ComputedPropertyName"
        /\ cls.members[gs[2]].nameKind # "ComputedPropertyName"
        /\ cls.members[gs[1]].name = cls.members[gs[2]].name
        /\ cls.members[gs[1]].decorators = 0
        /\ cls.members[gs[2]].decorators > 0}

Min(a, b) == IF a < b THEN a ELSE b

\* The decorator list of a pair: the setter's decorators, then wrappers of
\* the setter's parameters only.
IsSetterDecoratorList(list, s) ==
    LET n == cls.members[s].decorators IN
    /\ Len(list) >= n
    /\ \A k \in 1..n :
          list[k] = [kind |-> "DecoratorExpression", owner |-> <<"member", s, 0>>, index |-> k]
    /\ \A k \in (n + 1)..Len(list) :
          list[k].kind = "ParamCall" => list[k].expression.owner[2] = s
    /\ \A p \in 1..Len(cls.members[s].parameters) :
          cls.members[s].parameters[p].decorators > 0
          => \E k \in (n + 1)..Len(list) :
                /\ list[k].kind = "ParamCall"
                /\ list[k].expression.owner = <<"parameter", s, p>>

\* C10: for a get/set pair in which only the setter is decorated, whichever
\* accessor is declared first, exactly one decorator statement is emitted for
\* the pair, for the first-declared accessor, listing the setter's decorators
\* and wrappers of the setter's parameters only.
C10_SetterDecoratedPairOnce ==
    pc = "done"
    => \A gs \in SetterDecoratedPairs :
          LET sts == MemberDecoratorStatements(gs[1]) \cup MemberDecoratorStatements(gs[2])
          IN /\ Cardinality(sts) = 1
             /\ \A k \in sts :
                   /\ Output[k].member = Min(gs[1], gs[2])
                   /\ IsSetterDecoratorList(Output[k].decorate.list, gs[2])

\* The same for the pairs whose setter is declared first.
C10_SetterFirstPairOnce ==
    pc = "done"
    => \A gs \in SetterDecoratedPairs :
          gs[2] < gs[1]
          => LET sts == MemberDecoratorStatements(gs[1]) \cup MemberDecoratorStatements(gs[2])
             IN /\ Cardinality(sts) = 1
                /\ \A k \in sts :
                      /\ Output[k].member = gs[2]
                      /\ IsSetterDecoratorList(Output[k].decorate.list, gs[2])

\* The decorated members that get a decorator statement of their own: fields,
\* methods with a body, and accessors other than the second of a pair.
DecoratedMembers ==
    {i \in 1..Len(cls.members) :
        /\ NodeCanBeDecorated(cls.members[i])
        /\ cls.members[i].decorators > 0
        /\ IsAccessorKind(cls.members[i].kind)
           => GetAllAccessorDeclarations(cls.members, i).firstAccessor = i}

\* e denotes the name of member i: the name as a string for an identifier or
\* string-literal name, the generated local (or the assignment that sets it)
\* for a computed name.
DenotesNameOf(e, i) ==
    IF cls.members[i].nameKind = "ComputedPropertyName"
    THEN e = GeneratedIdentifier(i) \/ EvaluatesName(e, i)
    ELSE /\ e.kind = "StringLiteral"
         /\ e.text = <<"name", cls.members[i].name>>

\* st is the decorator statement of member i in the shape of its kind.
HasMemberStatementShape(st, i) ==
    LET owner == [kind |-> "ClassMemberPrefix", class |-> cls.name,
                  prototype |-> ~cls.members[i].static]
    IN /\ st.target = owner
       /\ st.decorate.target = owner
       /\ IF cls.members[i].kind = "PropertyDeclaration"
          THEN /\ st.callee = "__decorate"
               /\ st.descriptor = Undefined
          ELSE /\ st.callee = "Object.defineProperty"
               /\ st.descriptor # Undefined
               /\ st.descriptor.callee = "Object.getOwnPropertyDescriptor"
               /\ st.descriptor.target = owner

\* C11: every decorated member has one decorator statement, of the shape
\* defineProperty(owner, name, decorate(list, owner, name,
\* getOwnPropertyDescriptor(owner, name))) for a method or accessor and
\* decorate(list, owner, name) for a field, and the name in every position
\* denotes the member's own name.
C11_MemberStatementShapeAndName ==
    pc = "done"
    => \A i \in DecoratedMembers :
          /\ Cardinality(MemberDecoratorStatements(i)) = 1
          /\ \A k \in MemberDecoratorStatements(i) :
                /\ HasMemberStatementShape(Output[k], i)
                /\ \A a \in 1..Len(NameArguments(Output[k])) :
                      DenotesNameOf(NameArguments(Output[k])[a], i)

\* The part of C11 that holds: the shape of the statement for every decorated
\* member, and its name arguments when the name is a string literal.
C11_ShapeAndStringLiteralName ==
    pc = "done"
    => \A i \in DecoratedMembers :
          /\ Cardinality(MemberDecoratorStatements(i)) = 1
          /\ \A k \in MemberDecoratorStatements(i) :
                /\ HasMemberStatementShape(Output[k], i)
                /\ cls.members[i].nameKind = "StringLiteral"
                   => \A a \in 1..Len(NameArguments(Output[k])) :
                         DenotesNameOf(NameArguments(Output[k])[a], i)

\* The metadata tags a decorated declaration of a kind is to get, in order.
ExpectedMetadataTags(kind) ==
    IF kind = "MethodDeclaration"
    THEN <<"design:type", "design:paramtypes", "design:returntype">>
    ELSE IF kind \in {"PropertyDeclaration", "GetAccessor"} THEN <<"design:type">>
    ELSE IF kind = "SetAccessor" THEN <<"design:type", "design:paramtypes">>
    ELSE <<"design:paramtypes">>

\* The tags of the metadata calls of a decorator list, in list order.
MetadataTags(list) ==
    LET at == SelectIndices([k \in 1..Len(list) |-> list[k].kind = "MetadataCall"], 1)
    IN [k \in 1..Len(at) |-> list[at[k]].tag]

\* Every metadata call of the list stands after every decorator and wrapper.
MetadataLast(list) ==
    \A j, k \in 1..Len(list) :
        (list[j].kind = "MetadataCall" /\ list[k].kind # "MetadataCall") => k < j

\* The declaration whose decorators the statement of member i lists: the
\* member itself, or for an accessor pair the first decorated accessor.
DecoratedDeclaration(i) ==
    LET a == GetAllAccessorDeclarations(cls.members, i) IN
    IF IsAccessorKind(cls.members[i].kind)
       /\ cls.members[a.firstAccessor].decorators = 0 /\ a.secondAccessor # 0
    THEN a.secondAccessor
    ELSE i

\* C12: metadata calls stand in a decorator list only when
\* emitDecoratorMetadata is set, after all decorators and parameter wrappers,
\* and their tags follow the kind of the decorated declaration: type,
\* paramtypes, returntype for a method; type for a field or get accessor;
\* type, paramtypes for a set accessor; paramtypes for a class.
C12_MetadataTagsByKind ==
    pc = "done"
    => /\ \A k \in OutputPositions("DecoratorStatement") :
             /\ MetadataLast(Output[k].decorate.list)
             /\ MetadataTags(Output[k].decorate.list) =
                   IF emitDecoratorMetadata
                   THEN ExpectedMetadataTags(
                            cls.members[DecoratedDeclaration(Output[k].member)].kind)
                   ELSE <<>>
       /\ \A k \in OutputPositions("ClassDecorateAssignment") :
             /\ MetadataLast(Output[k].list)
             /\ MetadataTags(Output[k].list) =
                   IF emitDecoratorMetadata THEN ExpectedMetadataTags(cls.kind) ELSE <<>>

\* The part of C12 that holds: metadata only when the flag is set, always
\* last, and "design:paramtypes" alone for the class-level list.
C12_MetadataGatedLastAndClassTags ==
    pc = "done"
    => /\ \A k \in OutputPositions("DecoratorStatement") :
             /\ MetadataLast(Output[k].decorate.list)
             /\ ~emitDecoratorMetadata => MetadataTags(Output[k].decorate.list) = <<>>
       /\ \A k \in OutputPositions("ClassDecorateAssignment") :
             /\ MetadataLast(Output[k].list)
             /\ MetadataTags(Output[k].list) =
                   IF emitDecoratorMetadata THEN ExpectedMetadataTags(cls.kind) ELSE <<>>

\* An undecorated class expression has been lowered.
ClassExpressionDone ==
    /\ pc = "done"
    /\ cls.kind = "ClassExpression"
    /\ cls.decorators = 0

\* e is the lowered class expression: the class under its name, without
\* decorators, with the lowered member list.
IsLoweredClassExpression(e) ==
    /\ e.kind = "ClassExpression"
    /\ e.name = cls.name
    /\ e.decorators = 0
    /\ e.members = members

\* The initialized static fields in member declaration order.
StaticInitializers == GetInitializedProperties(cls, TRUE)

\* e is (t = <class>, <one assignment per initialized static field, in member
\* order>, t) for a temporary t declared for it.
IsStaticInitializerSequence(e) ==
    LET n == Len(StaticInitializers) IN
    /\ e.kind = "ParenthesizedExpression"
    /\ Len(e.expressions) = n + 2
    /\ e.expressions[1].kind = "Assignment"
    /\ IsLoweredClassExpression(e.expressions[1].right)
    /\ e.expressions[1].left.kind = "Identifier"
    /\ e.expressions[1].left # cls.name
    /\ e.expressions[1].left \in Range(hoisted)
    /\ e.expressions[n + 2] = e.expressions[1].left
    /\ \A k \in 1..n :
          /\ e.expressions[k + 1].kind = "PropertyAssignment"
          /\ e.expressions[k + 1].original = StaticInitializers[k]

\* C13: an undecorated class expression with static field initializers
\* lowers to one parenthesized sequence: the class assigned to a fresh
\* temporary, one assignment per initialized static field in member order,
\* each to a member of that temporary, then the temporary; without static
\* initializers the lowered class expression is the result; no statement is
\* emitted to the enclosing buffer.
C13_StaticInitializersOnTemporary ==
    ClassExpressionDone
    => /\ Output = <<>>
       /\ Len(statements) = 1
       /\ IF StaticInitializers = <<>>
          THEN IsLoweredClassExpression(result)
          ELSE /\ IsStaticInitializerSequence(result)
               /\ \A k \in 1..Len(StaticInitializers) :
                     result.expressions[k + 1].target = result.expressions[1].left

\* The part of C13 that holds: everything but the target of the static field
\* assignments, which is the class's declaration name.
C13_SequenceOnDeclarationName ==
    ClassExpressionDone
    => /\ Output = <<>>
       /\ Len(statements) = 1
       /\ IF StaticInitializers = <<>>
          THEN IsLoweredClassExpression(result)
          ELSE /\ IsStaticInitializerSequence(result)
               /\ \A k \in 1..Len(StaticInitializers) :
                     result.expressions[k + 1].target = cls.name

\* The class members reachable in the output of a lowered class declaration:
\* those of the class expression bound by the emitted declaration, and those
\* of a returned class node.
OutputMembers ==
    UNION {Range(Output[v].initializer.members) : v \in OutputPositions("VariableStatement")}
    \cup (IF result.kind \in {"ClassDeclaration", "ClassExpression"}
          THEN Range(result.members) ELSE {})

\* m carries no decorator, is no field declaration and stands for no ambient
\* member, and none of its parameters carries a decorator or an accessibility
\* modifier.
IsBaselineMember(m) ==
    /\ m.decorators = 0
    /\ m.kind # "PropertyDeclaration"
    /\ m.kind # "Constructor" => ~cls.members[m.original].ambient
    /\ \A k \in 1..Len(m.parameters) :
          /\ m.parameters[k].decorators = 0
          /\ ~m.parameters[k].accessibility

\* C14: after lowering a class declaration no member reachable in its output
\* carries a decorator or is a field or ambient declaration, and no
\* parameter carries a decorator or an accessibility modifier, the
\* constructor of every path of transformConstructor included.
C14_NoTypeScriptSyntaxInOutput ==
    (pc = "done" /\ cls.kind = "ClassDeclaration")
    => \A m \in OutputMembers : IsBaselineMember(m)

\* The part of C14 that holds: every output member other than a constructor
\* returned as it was is free of TypeScript syntax, and so is every
\* constructor that transformConstructor rebuilt.
C14_BaselineExceptUntouchedConstructor ==
    (pc = "done" /\ cls.kind = "ClassDeclaration")
    => \A m \in OutputMembers :
          (m.kind = "Constructor" /\ m.origin \in {"original", "clone"})
          \/ IsBaselineMember(m)

\* The statements that follow the class itself in the output.
TrailingPositions ==
    {k \in 1..Len(Output) : Output[k].kind \in {"PropertyAssignment", "DecoratorStatement",
                                                 "ClassDecorateAssignment"}}

\* The group of a trailing statement: 1 static field assignment, 2 decorator
\* statement of an instance member, 3 of a static member, 4 the class-level
\* assignment.
TrailingGroup(st) ==
    IF st.kind = "PropertyAssignment" THEN 1
    ELSE IF st.kind = "DecoratorStatement"
         THEN (IF cls.members[st.member].static THEN 3 ELSE 2)
         ELSE 4

\* The member a trailing statement belongs to (0 for the class itself).
TrailingMember(st) ==
    IF st.kind = "PropertyAssignment" THEN st.original
    ELSE IF st.kind = "DecoratorStatement" THEN st.member
         ELSE 0

\* The static field assignments of the output, as the fields they initialize.
StaticAssignmentsEmitted ==
    LET at == SelectIndices([k \in 1..Len(Output) |-> Output[k].kind = "PropertyAssignment"], 1)
    IN [k \in 1..Len(at) |-> Output[at[k]].original]

\* C15: the trailing statements of a class declaration stand in the order:
\* static field assignments (member order), decorator statements of instance
\* members (member order), those of static members (member order), the
\* class-level decorate assignment; no static field assignment follows a
\* decorator statement.
C15_TrailingStatementOrder ==
    cls.kind = "ClassDeclaration"
    => /\ \A j, k \in TrailingPositions :
             j < k => \/ TrailingGroup(Output[j]) < TrailingGroup(Output[k])
                      \/ /\ TrailingGroup(Output[j]) = TrailingGroup(Output[k])
                         /\ TrailingMember(Output[j]) < TrailingMember(Output[k])
       /\ pc \in {"decorators", "done"} => StaticAssignmentsEmitted = StaticInitializers
       /\ pc \notin {"decorators", "done"} => TrailingPositions = {}

\* A class whose static members are declared before its instance members,
\* fields between them, lowered to statements of all four groups.
C15_Witness ==
    /\ pc = "done"
    /\ cls.kind = "ClassDeclaration"
    /\ {TrailingGroup(Output[k]) : k \in TrailingPositions} = {1, 2, 3, 4}
    /\ Len(StaticInitializers) > 1
    /\ \E i, j \in 1..Len(cls.members) :
          /\ i < j
          /\ cls.members[i].static /\ ~cls.members[j].static
          /\ MemberDecoratorStatements(i) # {} /\ MemberDecoratorStatements(j) # {}

\* The buffer operations performed during call c of transformConstructor.
EventsOf(c) == SubSeq(trace, c.from + 1, c.to)

EventsAt(c, op, depth) ==
    SelectIndices([k \in 1..Len(EventsOf(c)) |->
                      EventsOf(c)[k].op = op /\ EventsOf(c)[k].depth = depth], 1)

Pushes(c) == {k \in 1..Len(EventsOf(c)) : EventsOf(c)[k].op = "push"}

Pops(c) == {k \in 1..Len(EventsOf(c)) : EventsOf(c)[k].op = "pop"}

\* The statements emitted during call c to the buffer the call pushed.
EmittedToOwnBuffer(c) ==
    LET at == EventsAt(c, "emit", Len(c.before) + 1)
    IN [k \in 1..Len(at) |-> EventsOf(c)[at[k]].statement]

\* C16: the buffer stack holds one buffer per constructor being synthesized
\* above the outermost one; every call of transformConstructor that returns
\* leaves the stack as it found it, with as many pops as pushes (none on the
\* fast path);
\* every statement emitted during the call to the buffer it pushed (the
\* statements of classes nested in the body included) is in the synthesized
\* body, in emission order, and nothing is emitted to an enclosing buffer.
C16_StackDiscipline ==
    /\ Len(statements) = 1 + Len(callers) + (IF pc = "body" THEN 1 ELSE 0)
    /\ \A n \in 1..Len(calls) :
          LET c == calls[n] IN
          /\ Len(c.after) = Len(c.before)
          /\ c.after = c.before
          /\ Cardinality(Pushes(c)) = Cardinality(Pops(c))
          /\ c.fast => EventsOf(c) = <<>>
          /\ ~c.fast => /\ Pushes(c) # {}
                        /\ c.body = EmittedToOwnBuffer(c)
          /\ \A k \in 1..Len(EventsOf(c)) : EventsOf(c)[k].depth > Len(c.before)

\* A constructor synthesized two classes deep: its buffer was pushed on a
\* stack of three, and its body holds statements of a class nested in it.
C16_Witness ==
    /\ pc = "done"
    /\ \E n \in 1..Len(calls) :
          /\ ~calls[n].fast
          /\ Len(calls[n].before) >= 2
          /\ Cardinality(Pushes(calls[n])) >= 2
          /\ \E k \in 1..Len(calls[n].body) :
                calls[n].body[k].kind \in {"VariableStatement", "ClassDecorateAssignment"}
    /\ \E n \in 1..Len(calls) :
          /\ ~calls[n].fast
          /\ Len(calls[n].before) = 1
          /\ Cardinality(Pushes(calls[n])) >= 3
\* --------------------------------------------------------------------- C17
\* The class node has been built from the lowered member list.
ClassBuilt ==
    /\ pc \in {"static", "decorators", "done"}
    /\ cls.kind = "ClassExpression" => cls.decorators = 0

\* The member list of the class node that lowering built: of the class
\* expression bound by `let`, of the updated class declaration, or of the
\* updated class expression.
LoweredMemberList ==
    IF newNode.kind = "VariableStatement" THEN newNode.initializer.members
    ELSE newNode.members

\* The positions of the constructors in a member list.
ConstructorPositions(ms) == {k \in 1..Len(ms) : ms[k].kind = "Constructor"}

\* The positions of the source class that declare a constructor: overload
\* signatures and the constructor with a body.
DeclaredConstructors == {i \in 1..Len(cls.members) : cls.members[i].kind = "Constructor"}

\* C17: the member list of every class lowered by transformClassDeclaration
\* or (undecorated) by transformClassExpression holds at most one
\* constructor, which is its first member, and none of the members after it
\* is a constructor or stands for a constructor declaration of the source.
C17_SingleLeadingConstructor ==
    ClassBuilt
    => /\ LoweredMemberList = members
       /\ Cardinality(ConstructorPositions(LoweredMemberList)) <= 1
       /\ ConstructorPositions(LoweredMemberList) \subseteq {1}
       /\ \A k \in 1..Len(LoweredMemberList) :
             LoweredMemberList[k].kind # "Constructor"
             => LoweredMemberList[k].original \notin DeclaredConstructors

\* A class whose constructor is declared after a method and an overload
\* signature was lowered: the constructor leads the member list and the
\* method follows it.
C17_Witness ==
    /\ ClassBuilt
    /\ pc = "done"
    /\ \E i \in DeclaredConstructors : ~cls.members[i].hasBody
    /\ TheConstructor > 2
    /\ Len(LoweredMemberList) >= 2
    /\ LoweredMemberList[1].kind = "Constructor"
    /\ LoweredMemberList[2].kind = "MethodDeclaration"
    /\ LoweredMemberList[2].original = 1
====
